---- MODULE Spec2Model ----
(***************************************************************************)
(* Model of handler.py, the serverless request handler of the Supertonic   *)
(* text-to-speech worker: the two lazily filled caches (tts_model,         *)
(* voice_styles), load_model, get_voice_style and handler.                 *)
(*                                                                         *)
(* File names and voice identifiers are sequences of tokens, so that       *)
(* "M1.json" is <<"M1", ".json">>: str.endswith and str.replace are        *)
(* modelled on the tokens.  No token contains ".json" and no two tokens    *)
(* join into one.                                                          *)
(*                                                                         *)
(* Spec     : handler invocations one after the other, each one action,    *)
(*            with the filesystem changing between them.                   *)
(* SpecConc : NumWorkers handler invocations interleaved statement by      *)
(*            statement (no lock exists in handler.py).                    *)
(***************************************************************************)
EXTENDS Integers, Sequences, FiniteSets, TLC

\* ------------------------------------------------------------------ bounds
MaxLen == 2          \* longest waveform the engine returns
MaxDurNum == 3       \* largest duration, in units of 1/DurDen second
MaxEngineLoads == 2  \* completed load_text_to_speech calls explored
MaxStyleLoads == 2   \* completed load_voice_style calls explored, per voice
NumWorkers == 2      \* concurrent handler invocations (SpecConc)
MaxMissable == 4     \* how many of the required files may be absent

\* --------------------------------------------------------- program values
None == 0            \* tts_model = None; engine handles are 1, 2, ...
sample_rate == 3     \* model.sample_rate, a fixed attribute of the engine
DurDen == 4          \* duration[0].item() is DurNum / DurDen seconds

ONNX_DIR == "assets/onnx"
VOICE_STYLES_DIR == "assets/voice_styles"

required_files ==
    << "duration_predictor.onnx", "text_encoder.onnx", "vector_estimator.onnx",
       "vocoder.onnx", "tts.json", "unicode_indexer.json" >>

available_langs == << "en", "ko", "es", "pt", "fr" >>

DefaultLanguage == "en"
DefaultVoice == << "M1" >>

Range(s) == { s[i] : i \in 1..Len(s) }

\* ------------------------------------------------------------ environment
\* Files that may be present in VOICE_STYLES_DIR.
StyleFileNames ==
    { << "M1", ".json" >>, << "M1", ".json", ".json" >>, << "M1", ".txt" >> }

\* The required files that may be absent from ONNX_DIR, "vocoder.onnx" first;
\* the others are always there.
MissableFiles ==
    { required_files[((i + 2) % Len(required_files)) + 1] : i \in 1..MaxMissable }

OnnxDirs == { Range(required_files) \ m : m \in SUBSET MissableFiles }

\* Voice identifiers a job may ask for.
VoiceIds == { << "M1" >>, << "M1", ".json" >>, << "F1" >> }

\* Those a job names itself; << "M1" >> is what a job without a voice gets.
NamedVoices == VoiceIds \ { << "M1" >> }

\* Language values a job may carry.
LanguageValues == { "fr", "xx", "EN" }

\* A Python dict with string keys: the keys present, and a value per field.
EmptyDict ==
    [type |-> "dict", keys |-> {}, language |-> "", voice |-> << >>]

JobInputs ==
    { [type |-> "dict", keys |-> {}, language |-> "", voice |-> << >>] }
    \cup { [type |-> "dict", keys |-> {"language"}, language |-> l, voice |-> << >>] :
             l \in LanguageValues }
    \cup { [type |-> "dict", keys |-> {"voice"}, language |-> "", voice |-> v] :
             v \in NamedVoices }
    \cup { [type |-> "dict", keys |-> {"language", "voice"}, language |-> l, voice |-> v] :
             l \in LanguageValues, v \in NamedVoices }
    \cup { [type |-> "str", keys |-> {}, language |-> "", voice |-> << >>] }

\* job is a dict whose "input" key may be absent.
Jobs ==
    { [keys |-> {}, input |-> EmptyDict] }
    \cup { [keys |-> {"input"}, input |-> i] : i \in JobInputs }

\* dict.get(key, default)
DictGet(d, key, default) == IF key \in d.keys THEN d[key] ELSE default

\* Where the body of handler's try block may raise apart from the two loads:
\* the log line (text[:50]), the engine call, the trim, the WAV encoding.
Faults == { "none", "log", "engine", "trim", "encode" }

VARIABLES
    onnxDir,         \* names of the files present in ONNX_DIR
    stylesDirExists, \* whether VOICE_STYLES_DIR exists
    stylesFiles,     \* names of the files present in VOICE_STYLES_DIR
    tts_model,       \* the global engine handle, None until loaded
    voice_styles,    \* the global dict voice_name -> style
    engineLoads,     \* history: completed load_text_to_speech calls
    styleLoads,      \* history: completed load_voice_style calls, per voice
    last,            \* history: the invocation whose result is being returned (Spec)
    pc, wvoice, wmodel, wstyle, wresult   \* per-worker position and locals (SpecConc)

fsvars == << onnxDir, stylesDirExists, stylesFiles >>
globals == << tts_model, voice_styles, engineLoads, styleLoads >>
workervars == << pc, wvoice, wmodel, wstyle, wresult >>
vars == << onnxDir, stylesDirExists, stylesFiles, tts_model, voice_styles,
           engineLoads, styleLoads, last, pc, wvoice, wmodel, wstyle, wresult >>

Workers == 1..NumWorkers

\* ------------------------------------------------------ messages, results
NoStyle == [voice |-> << >>, n |-> 0]
NoAudio == [container |-> "", samplerate |-> 0, frames |-> << >>]

Msg(type, language, allowed, voice, available, missing, detail) ==
    [type |-> type, language |-> language, allowed |-> allowed, voice |-> voice,
     available |-> available, missing |-> missing, detail |-> detail]

NoMsg == Msg("", "", << >>, << >>, {}, << >>, "")

\* f"Invalid language '{language}'. Available: {available_langs}"
InvalidLanguageMsg(language) ==
    Msg("InvalidLanguage", language, available_langs, << >>, {}, << >>, "")

\* f"Missing required model files: {missing_files}"
MissingArtifactMsg(missing_files) ==
    Msg("MissingArtifact", "", << >>, << >>, {}, missing_files, "")

\* f"Voice style '{voice_name}' not found. Available: {available}"
UnknownVoiceMsg(voice_name, available) ==
    Msg("UnknownVoice", "", << >>, voice_name, available, << >>, "")

\* str(e) of any other exception; detail names the call that raised
FaultMsg(detail) == Msg("Fault", "", << >>, << >>, {}, << >>, detail)

ErrorResult(msg) ==
    [kind |-> "error", audio |-> NoAudio, duration |-> 0, sample_rate |-> 0,
     error |-> msg]

SuccessResult(audio, duration, rate) ==
    [kind |-> "success", audio |-> audio, duration |-> duration,
     sample_rate |-> rate, error |-> NoMsg]

\* No result: the exception left handler.
NoResult ==
    [kind |-> "none", audio |-> NoAudio, duration |-> 0, sample_rate |-> 0,
     error |-> NoMsg]

\* ------------------------------------------------------------- load_model
\* os.path.exists(os.path.join(ONNX_DIR, f))
ArtifactExists(onnx, f) == f \in onnx

\* Mutant of MissingFiles: the loop stops at the first absent file.
MissingFiles_FirstOnly(onnx) ==
    LET all == SelectSeq(required_files, LAMBDA f : f \notin onnx)
    IN  IF all = << >> THEN << >> ELSE << Head(all) >>

\* the loop filling missing_files, in the order of required_files
MissingFiles(onnx) ==
    SelectSeq(required_files, LAMBDA f : ~ArtifactExists(onnx, f))

\* Mutant of load_model: the test "tts_model is None" is gone, so every call
\* checks the files and loads.
load_model_NoCache(tm, onnx, loadOk, loads) ==
    LET missing_files == SelectSeq(required_files, LAMBDA f : f \notin onnx)
    IN  IF missing_files # << >>
        THEN [raised |-> "FileNotFoundError",
              msg |-> MissingArtifactMsg(missing_files),
              ret |-> None, tts_model |-> tm,
              checked |-> TRUE, loadCalled |-> FALSE, loads |-> loads]
        ELSE IF ~loadOk
        THEN [raised |-> "Exception", msg |-> FaultMsg("load_text_to_speech"),
              ret |-> None, tts_model |-> tm,
              checked |-> TRUE, loadCalled |-> TRUE, loads |-> loads]
        ELSE [raised |-> "", msg |-> NoMsg,
              ret |-> loads + 1, tts_model |-> loads + 1,
              checked |-> TRUE, loadCalled |-> TRUE, loads |-> loads + 1]

\* load_model(): tm is the global tts_model, onnx the directory's content,
\* loadOk whether load_text_to_speech returns (it may raise), loads the number
\* of handles it has returned so far (the next handle is loads + 1).
load_model(tm, onnx, loadOk, loads) ==
    IF tm # None
    THEN [raised |-> "", msg |-> NoMsg, ret |-> tm, tts_model |-> tm,
          checked |-> FALSE, loadCalled |-> FALSE, loads |-> loads]
    ELSE LET missing_files == MissingFiles(onnx)
         IN  IF missing_files # << >>
             THEN [raised |-> "FileNotFoundError",
                   msg |-> MissingArtifactMsg(missing_files),
                   ret |-> None, tts_model |-> tm,
                   checked |-> TRUE, loadCalled |-> FALSE, loads |-> loads]
             ELSE IF ~loadOk
             THEN [raised |-> "Exception",
                   msg |-> FaultMsg("load_text_to_speech"),
                   ret |-> None, tts_model |-> tm,
                   checked |-> TRUE, loadCalled |-> TRUE, loads |-> loads]
             ELSE [raised |-> "", msg |-> NoMsg,
                   ret |-> loads + 1, tts_model |-> loads + 1,
                   checked |-> TRUE, loadCalled |-> TRUE, loads |-> loads + 1]

\* -------------------------------------------------------- get_voice_style
\* f.endswith('.json')
EndsWithJson(f) == Len(f) > 0 /\ f[Len(f)] = ".json"

\* f.replace('.json', ''): every occurrence is removed, not only the suffix
ReplaceJson(f) == SelectSeq(f, LAMBDA t : t # ".json")

\* [f.replace('.json', '') for f in os.listdir(VOICE_STYLES_DIR)
\*  if f.endswith('.json')], as the set of the names listed
Available(files) == { ReplaceJson(f) : f \in { g \in files : EndsWithJson(g) } }

\* os.path.join(VOICE_STYLES_DIR, f"{voice_name}.json")
VoicePath(voice_name) == voice_name \o << ".json" >>

\* os.path.exists(voice_path)
StyleExists(dirExists, files, voice_name) ==
    dirExists /\ VoicePath(voice_name) \in files

\* voice_styles[voice_name] = style
DictSet(d, key, value) ==
    [k \in DOMAIN d \cup {key} |-> IF k = key THEN value ELSE d[k]]

\* Mutant of get_voice_style: the test "voice_name not in voice_styles" is
\* gone, so every call checks the file and loads.
get_voice_style_NoCache(vs, dirExists, files, voice_name, loadOk, loads) ==
    IF ~StyleExists(dirExists, files, voice_name)
    THEN [raised |-> "FileNotFoundError",
          msg |-> IF dirExists
                  THEN UnknownVoiceMsg(voice_name, Available(files))
                  ELSE FaultMsg("os.listdir"),
          ret |-> NoStyle, voice_styles |-> vs,
          checked |-> TRUE, loadCalled |-> FALSE, loads |-> loads]
    ELSE IF ~loadOk
    THEN [raised |-> "Exception", msg |-> FaultMsg("load_voice_style"),
          ret |-> NoStyle, voice_styles |-> vs,
          checked |-> TRUE, loadCalled |-> TRUE, loads |-> loads]
    ELSE LET style == [voice |-> voice_name, n |-> loads + 1]
         IN  [raised |-> "", msg |-> NoMsg, ret |-> style,
              voice_styles |-> DictSet(vs, voice_name, style),
              checked |-> TRUE, loadCalled |-> TRUE, loads |-> loads + 1]

\* Mutant of get_voice_style: the key is entered before the load, so a load
\* that raises leaves an entry without a style.
get_voice_style_CachesFailure(vs, dirExists, files, voice_name, loadOk, loads) ==
    IF voice_name \in DOMAIN vs
    THEN [raised |-> "", msg |-> NoMsg, ret |-> vs[voice_name],
          voice_styles |-> vs, checked |-> FALSE, loadCalled |-> FALSE,
          loads |-> loads]
    ELSE IF ~StyleExists(dirExists, files, voice_name)
    THEN [raised |-> "FileNotFoundError",
          msg |-> IF dirExists
                  THEN UnknownVoiceMsg(voice_name, Available(files))
                  ELSE FaultMsg("os.listdir"),
          ret |-> NoStyle, voice_styles |-> vs,
          checked |-> TRUE, loadCalled |-> FALSE, loads |-> loads]
    ELSE IF ~loadOk
    THEN [raised |-> "Exception", msg |-> FaultMsg("load_voice_style"),
          ret |-> NoStyle, voice_styles |-> DictSet(vs, voice_name, NoStyle),
          checked |-> TRUE, loadCalled |-> TRUE, loads |-> loads]
    ELSE LET style == [voice |-> voice_name, n |-> loads + 1]
         IN  [raised |-> "", msg |-> NoMsg, ret |-> style,
              voice_styles |-> DictSet(vs, voice_name, style),
              checked |-> TRUE, loadCalled |-> TRUE, loads |-> loads + 1]

\* get_voice_style(voice_name): vs is the global voice_styles, loadOk whether
\* load_voice_style returns, loads the styles it has returned so far for
\* this voice.  os.listdir raises FileNotFoundError when the directory is
\* absent.
get_voice_style(vs, dirExists, files, voice_name, loadOk, loads) ==
    IF voice_name \in DOMAIN vs
    THEN [raised |-> "", msg |-> NoMsg, ret |-> vs[voice_name],
          voice_styles |-> vs, checked |-> FALSE, loadCalled |-> FALSE,
          loads |-> loads]
    ELSE IF ~StyleExists(dirExists, files, voice_name)
    THEN [raised |-> "FileNotFoundError",
          msg |-> IF dirExists
                  THEN UnknownVoiceMsg(voice_name, Available(files))
                  ELSE FaultMsg("os.listdir"),
          ret |-> NoStyle, voice_styles |-> vs,
          checked |-> TRUE, loadCalled |-> FALSE, loads |-> loads]
    ELSE IF ~loadOk
    THEN [raised |-> "Exception", msg |-> FaultMsg("load_voice_style"),
          ret |-> NoStyle, voice_styles |-> vs,
          checked |-> TRUE, loadCalled |-> TRUE, loads |-> loads]
    ELSE LET style == [voice |-> voice_name, n |-> loads + 1]
         IN  [raised |-> "", msg |-> NoMsg, ret |-> style,
              voice_styles |-> DictSet(vs, voice_name, style),
              checked |-> TRUE, loadCalled |-> TRUE, loads |-> loads + 1]

\* ------------------------------------------------------------------ audio
\* The engine's waveform wav[0] of length n; sample i is written i, so that
\* a result shows which samples it kept.
Waveform(n) == [i \in 1..n |-> i]

\* model.sample_rate: every handle load_text_to_speech returns has the rate
\* the artifacts fix
SampleRateOf(model) == sample_rate

\* Mutant of TrimLength: the product is rounded up instead of truncated.
TrimLength_RoundsUp(model, durNum) ==
    (SampleRateOf(model) * durNum + DurDen - 1) \div DurDen

\* int(model.sample_rate * duration[0].item()): int() truncates
TrimLength(model, durNum) == (SampleRateOf(model) * durNum) \div DurDen

\* wav[0, :n] for n >= 0: the first n samples, all of them when n > len
Trim(wav, n) == SubSeq(wav, 1, IF n < Len(wav) THEN n ELSE Len(wav))

\* sf.write(buffer, wav_trimmed, rate, format='WAV') and base64.b64encode:
\* a WAV stream holds the rate and one frame per sample
EncodeWav(frames, rate) ==
    [container |-> "WAV", samplerate |-> rate, frames |-> frames]


\* ---------------------------------------------------------------- handler
\* Mutant of LanguageRejected: the value is compared in lower case.
LanguageRejected_LowerCased(language) ==
    (IF language = "EN" THEN "en" ELSE language) \notin Range(available_langs)

\* language not in available_langs
LanguageRejected(language) == language \notin Range(available_langs)

NotCalledLm ==
    [called |-> FALSE, raised |-> "", checked |-> FALSE, loadCalled |-> FALSE,
     ret |-> None]

NotCalledGs ==
    [called |-> FALSE, raised |-> "", checked |-> FALSE, loadCalled |-> FALSE,
     ret |-> NoStyle]

CalledLm(r) ==
    [called |-> TRUE, raised |-> r.raised, checked |-> r.checked,
     loadCalled |-> r.loadCalled, ret |-> r.ret]

CalledGs(r) ==
    [called |-> TRUE, raised |-> r.raised, checked |-> r.checked,
     loadCalled |-> r.loadCalled, ret |-> r.ret]

\* What one handler invocation did, for the properties to read: the job, the
\* voice it asked for, the result (outcome "returned") or the escape of an
\* exception (outcome "raised"), the globals g and the directories fs as the
\* invocation found them, what load_model (lm) and get_voice_style (gs) did,
\* whether the engine was called and what it returned.
Invocation(job, voice, outcome, result, g, fs, lm, gs, invoked, wavLen, durNum) ==
    [job |-> job, voice |-> voice, outcome |-> outcome, result |-> result,
     g |-> g, fs |-> fs, lm |-> lm, gs |-> gs,
     engineInvoked |-> invoked, wavLen |-> wavLen, durNum |-> durNum]

\* handler(job).  g holds the globals, fs the two directories, env what the
\* collaborators do in this invocation: engOk and styOk (whether the two loads
\* return), fault (where else the try block raises), wavLen and durNum (the
\* engine's waveform length and duration).  The value is the globals after
\* the invocation and the record of it.
handler(job, g, fs, env) ==
    LET job_input == DictGet(job, "input", EmptyDict)
    IN
    IF job_input.type # "dict"
    THEN \* job_input.get: AttributeError, raised before the try block
         [g |-> g,
          inv |-> Invocation(job, << >>, "raised", NoResult, g, fs,
                             NotCalledLm, NotCalledGs, FALSE, 0, 0)]
    ELSE
    LET language == DictGet(job_input, "language", DefaultLanguage)
        voice == DictGet(job_input, "voice", DefaultVoice)
    IN
    IF LanguageRejected(language)
    THEN [g |-> g,
          inv |-> Invocation(job, voice, "returned",
                             ErrorResult(InvalidLanguageMsg(language)),
                             g, fs, NotCalledLm, NotCalledGs, FALSE, 0, 0)]
    ELSE
    LET lm == load_model(g.tts_model, fs.onnx, env.engOk, g.engineLoads)
        g1 == [g EXCEPT !.tts_model = lm.tts_model, !.engineLoads = lm.loads]
    IN
    IF lm.raised # ""
    THEN [g |-> g1,
          inv |-> Invocation(job, voice, "returned", ErrorResult(lm.msg), g, fs,
                             CalledLm(lm), NotCalledGs, FALSE, 0, 0)]
    ELSE
    LET gs == get_voice_style(g1.voice_styles, fs.dirExists, fs.files, voice,
                              env.styOk, g1.styleLoads[voice])
        g2 == [g1 EXCEPT !.voice_styles = gs.voice_styles,
                         !.styleLoads[voice] = gs.loads]
    IN
    IF gs.raised # ""
    THEN [g |-> g2,
          inv |-> Invocation(job, voice, "returned", ErrorResult(gs.msg), g, fs,
                             CalledLm(lm), CalledGs(gs), FALSE, 0, 0)]
    ELSE IF env.fault = "log"
    THEN [g |-> g2,
          inv |-> Invocation(job, voice, "returned", ErrorResult(FaultMsg("log")),
                             g, fs, CalledLm(lm), CalledGs(gs), FALSE, 0, 0)]
    ELSE IF env.fault = "engine"
    THEN [g |-> g2,
          inv |-> Invocation(job, voice, "returned",
                             ErrorResult(FaultMsg("engine")),
                             g, fs, CalledLm(lm), CalledGs(gs), TRUE, 0, 0)]
    ELSE IF env.fault \in {"trim", "encode"}
    THEN [g |-> g2,
          inv |-> Invocation(job, voice, "returned",
                             ErrorResult(FaultMsg(env.fault)),
                             g, fs, CalledLm(lm), CalledGs(gs), TRUE,
                             env.wavLen, env.durNum)]
    ELSE
    LET wav == Waveform(env.wavLen)
        wav_trimmed == Trim(wav, TrimLength(lm.ret, env.durNum))
        audio_base64 == EncodeWav(wav_trimmed, SampleRateOf(lm.ret))
    IN  [g |-> g2,
         inv |-> Invocation(job, voice, "returned",
                            SuccessResult(audio_base64, env.durNum,
                                          SampleRateOf(lm.ret)),
                            g, fs, CalledLm(lm), CalledGs(gs), TRUE,
                            env.wavLen, env.durNum)]

\* ------------------------------------------------------------------ state
Globals ==
    [tts_model |-> tts_model, voice_styles |-> voice_styles,
     engineLoads |-> engineLoads, styleLoads |-> styleLoads]

FileSystem ==
    [onnx |-> onnxDir, dirExists |-> stylesDirExists, files |-> stylesFiles]

Env(engOk, styOk, fault, wavLen, durNum) ==
    [engOk |-> engOk, styOk |-> styOk, fault |-> fault,
     wavLen |-> wavLen, durNum |-> durNum]

\* handler reads env up to the first thing that raises and no further: the
\* envs in which one thing raises, and those in which nothing does, give every
\* behaviour of the full product.
Envs ==
    { Env(FALSE, TRUE, "none", 0, 0), Env(TRUE, FALSE, "none", 0, 0) }
    \cup { Env(TRUE, TRUE, f, 0, 0) : f \in Faults \ {"none"} }
    \cup { Env(TRUE, TRUE, "none", n, d) : n \in 0..MaxLen, d \in 0..MaxDurNum }

InitGlobals ==
    [tts_model |-> None, voice_styles |-> << >>,
     engineLoads |-> 0, styleLoads |-> [v \in VoiceIds |-> 0]]

NoInvocation ==
    Invocation([keys |-> {}, input |-> EmptyDict], << >>, "none", NoResult,
               InitGlobals, [onnx |-> {}, dirExists |-> FALSE, files |-> {}],
               NotCalledLm, NotCalledGs, FALSE, 0, 0)

\* The module is imported with both caches empty; the two directories hold
\* whatever the image was built with.
Init ==
    /\ onnxDir \in OnnxDirs
    /\ stylesDirExists \in BOOLEAN
    /\ stylesFiles \in SUBSET StyleFileNames
    /\ ~stylesDirExists => stylesFiles = {}
    /\ tts_model = InitGlobals.tts_model
    /\ voice_styles = InitGlobals.voice_styles
    /\ engineLoads = 0
    /\ styleLoads = InitGlobals.styleLoads
    /\ last = NoInvocation
    /\ pc = [w \in Workers |-> "idle"]
    /\ wvoice = [w \in Workers |-> << >>]
    /\ wmodel = [w \in Workers |-> None]
    /\ wstyle = [w \in Workers |-> NoStyle]
    /\ wresult = [w \in Workers |-> NoResult]

\* ------------------------------------------------- the filesystem changes
\* Between invocations anyone may add or remove files.  (A change while a
\* result is being returned is the same as one right after.)
AddArtifact(f) ==
    /\ last.outcome = "none"
    /\ f \notin onnxDir
    /\ onnxDir' = onnxDir \cup {f}
    /\ UNCHANGED << stylesDirExists, stylesFiles, globals, last, workervars >>

RemoveArtifact(f) ==
    /\ last.outcome = "none"
    /\ f \in onnxDir
    /\ onnxDir' = onnxDir \ {f}
    /\ UNCHANGED << stylesDirExists, stylesFiles, globals, last, workervars >>

AddStyleFile(f) ==
    /\ last.outcome = "none"
    /\ stylesDirExists
    /\ f \notin stylesFiles
    /\ stylesFiles' = stylesFiles \cup {f}
    /\ UNCHANGED << onnxDir, stylesDirExists, globals, last, workervars >>

RemoveStyleFile(f) ==
    /\ last.outcome = "none"
    /\ f \in stylesFiles
    /\ stylesFiles' = stylesFiles \ {f}
    /\ UNCHANGED << onnxDir, stylesDirExists, globals, last, workervars >>

MakeStylesDir ==
    /\ last.outcome = "none"
    /\ ~stylesDirExists
    /\ stylesDirExists' = TRUE
    /\ UNCHANGED << onnxDir, stylesFiles, globals, last, workervars >>

RemoveStylesDir ==
    /\ last.outcome = "none"
    /\ stylesDirExists
    /\ stylesDirExists' = FALSE
    /\ stylesFiles' = {}
    /\ UNCHANGED << onnxDir, globals, last, workervars >>

\* ------------------------------------------- one invocation, start to end
\* runpod.serverless.start({"handler": handler}): the runtime calls
\* handler(job) for a job it received ...
Handler(job, env) ==
    LET r == handler(job, Globals, FileSystem, env)
    IN  /\ last.outcome = "none"
        /\ r.g.engineLoads <= MaxEngineLoads
        /\ \A v \in VoiceIds : r.g.styleLoads[v] <= MaxStyleLoads
        /\ tts_model' = r.g.tts_model
        /\ voice_styles' = r.g.voice_styles
        /\ engineLoads' = r.g.engineLoads
        /\ styleLoads' = r.g.styleLoads
        /\ last' = r.inv
        /\ UNCHANGED << fsvars, workervars >>

\* ... and sends back what it returned, or the failure of the job when an
\* exception left it, and goes on to the next job.
Return ==
    /\ last.outcome # "none"
    /\ last' = NoInvocation
    /\ UNCHANGED << fsvars, globals, workervars >>

Next ==
    \/ \E job \in Jobs, env \in Envs : Handler(job, env)
    \/ Return
    \/ \E f \in MissableFiles : AddArtifact(f)
    \/ \E f \in MissableFiles : RemoveArtifact(f)
    \/ \E f \in StyleFileNames : AddStyleFile(f)
    \/ \E f \in StyleFileNames : RemoveStyleFile(f)
    \/ MakeStylesDir
    \/ RemoveStylesDir

Spec == Init /\ [][Next]_vars

\* ------------------------------------------- invocations running together
\* The same code, one statement group at a time, for NumWorkers invocations
\* that the host runs at once.  handler.py takes no lock, so between any two
\* of these steps of one invocation the steps of another may run.  The
\* directories stay as they were at the start.
Goto(w, label) == pc' = [pc EXCEPT ![w] = label]

Finishes(w, result) ==
    /\ wresult' = [wresult EXCEPT ![w] = result]
    /\ Goto(w, "done")

\* lines 72-84: the fields, their defaults, the language check
Start(w, job) ==
    LET job_input == DictGet(job, "input", EmptyDict)
        language == DictGet(job_input, "language", DefaultLanguage)
        voice == DictGet(job_input, "voice", DefaultVoice)
    IN  /\ pc[w] = "idle"
        /\ IF job_input.type # "dict"
           THEN Finishes(w, NoResult) /\ UNCHANGED wvoice
           ELSE IF LanguageRejected(language)
           THEN Finishes(w, ErrorResult(InvalidLanguageMsg(language)))
                /\ UNCHANGED wvoice
           ELSE /\ wvoice' = [wvoice EXCEPT ![w] = voice]
                /\ Goto(w, "load_model")
                /\ UNCHANGED wresult
        /\ UNCHANGED << fsvars, globals, last, wmodel, wstyle >>

\* lines 26-46: the test of tts_model and the check of the files
LoadModelCheck(w) ==
    /\ pc[w] = "load_model"
    /\ IF tts_model # None
       THEN Goto(w, "load_model_return") /\ UNCHANGED wresult
       ELSE IF MissingFiles(onnxDir) # << >>
       THEN Finishes(w, ErrorResult(MissingArtifactMsg(MissingFiles(onnxDir))))
       ELSE Goto(w, "load_text_to_speech") /\ UNCHANGED wresult
    /\ UNCHANGED << fsvars, globals, last, wvoice, wmodel, wstyle >>

\* line 48: the load, and the assignment of its value to tts_model
LoadModelLoad(w, loadOk) ==
    /\ pc[w] = "load_text_to_speech"
    /\ IF loadOk
       THEN /\ engineLoads < MaxEngineLoads
            /\ engineLoads' = engineLoads + 1
            /\ tts_model' = engineLoads + 1
            /\ Goto(w, "load_model_return")
            /\ UNCHANGED wresult
       ELSE /\ Finishes(w, ErrorResult(FaultMsg("load_text_to_speech")))
            /\ UNCHANGED << tts_model, engineLoads >>
    /\ UNCHANGED << fsvars, voice_styles, styleLoads, last, wvoice, wmodel, wstyle >>

\* line 50 and line 88: return tts_model, read from the global
LoadModelReturn(w) ==
    /\ pc[w] = "load_model_return"
    /\ wmodel' = [wmodel EXCEPT ![w] = tts_model]
    /\ Goto(w, "get_voice_style")
    /\ UNCHANGED << fsvars, globals, last, wvoice, wstyle, wresult >>

\* lines 55-60: the test of voice_styles and the check of the style file
GetVoiceStyleCheck(w) ==
    /\ pc[w] = "get_voice_style"
    /\ IF wvoice[w] \in DOMAIN voice_styles
       THEN Goto(w, "get_voice_style_return") /\ UNCHANGED wresult
       ELSE IF ~StyleExists(stylesDirExists, stylesFiles, wvoice[w])
       THEN Finishes(w, ErrorResult(
                IF stylesDirExists
                THEN UnknownVoiceMsg(wvoice[w], Available(stylesFiles))
                ELSE FaultMsg("os.listdir")))
       ELSE Goto(w, "load_voice_style") /\ UNCHANGED wresult
    /\ UNCHANGED << fsvars, globals, last, wvoice, wmodel, wstyle >>

\* line 62: the load, and the assignment of its value to voice_styles[voice_name]
GetVoiceStyleLoad(w, loadOk) ==
    /\ pc[w] = "load_voice_style"
    /\ IF loadOk
       THEN LET v == wvoice[w]
                style == [voice |-> v, n |-> styleLoads[v] + 1]
            IN  /\ styleLoads[v] < MaxStyleLoads
                /\ styleLoads' = [styleLoads EXCEPT ![v] = @ + 1]
                /\ voice_styles' = DictSet(voice_styles, v, style)
                /\ Goto(w, "get_voice_style_return")
                /\ UNCHANGED wresult
       ELSE /\ Finishes(w, ErrorResult(FaultMsg("load_voice_style")))
            /\ UNCHANGED << voice_styles, styleLoads >>
    /\ UNCHANGED << fsvars, tts_model, engineLoads, last, wvoice, wmodel, wstyle >>

\* line 64 and line 91: return voice_styles[voice_name], read from the global
GetVoiceStyleReturn(w) ==
    /\ pc[w] = "get_voice_style_return"
    /\ wstyle' = [wstyle EXCEPT ![w] = voice_styles[wvoice[w]]]
    /\ Goto(w, "synthesize")
    /\ UNCHANGED << fsvars, globals, last, wvoice, wmodel, wresult >>

\* lines 93-121: the engine call, the trim, the encoding, the result
Synthesize(w, env) ==
    /\ pc[w] = "synthesize"
    /\ IF env.fault # "none"
       THEN Finishes(w, ErrorResult(FaultMsg(env.fault)))
       ELSE LET wav == Waveform(env.wavLen)
                wav_trimmed == Trim(wav, TrimLength(wmodel[w], env.durNum))
                audio_base64 == EncodeWav(wav_trimmed, SampleRateOf(wmodel[w]))
            IN  Finishes(w, SuccessResult(audio_base64, env.durNum,
                                          SampleRateOf(wmodel[w])))
    /\ UNCHANGED << fsvars, globals, last, wvoice, wmodel, wstyle >>

\* the result goes back to the runtime and the locals are gone
Finish(w) ==
    /\ pc[w] = "done"
    /\ Goto(w, "idle")
    /\ wvoice' = [wvoice EXCEPT ![w] = << >>]
    /\ wmodel' = [wmodel EXCEPT ![w] = None]
    /\ wstyle' = [wstyle EXCEPT ![w] = NoStyle]
    /\ wresult' = [wresult EXCEPT ![w] = NoResult]
    /\ UNCHANGED << fsvars, globals, last >>

NextConc ==
    \/ \E w \in Workers, job \in Jobs : Start(w, job)
    \/ \E w \in Workers : LoadModelCheck(w)
    \/ \E w \in Workers, loadOk \in BOOLEAN : LoadModelLoad(w, loadOk)
    \/ \E w \in Workers : LoadModelReturn(w)
    \/ \E w \in Workers : GetVoiceStyleCheck(w)
    \/ \E w \in Workers, loadOk \in BOOLEAN : GetVoiceStyleLoad(w, loadOk)
    \/ \E w \in Workers : GetVoiceStyleReturn(w)
    \/ \E w \in Workers, env \in Envs : Synthesize(w, env)
    \/ \E w \in Workers : Finish(w)

SpecConc == Init /\ [][NextConc]_vars

\* =============================================================== properties
\* An invocation's result is being returned: last describes it, and the
\* globals are as it left them.
Invoked == last.outcome # "none"

\* The language a job asks for: the "language" field of its input, "en"
\* when the job has no input or the input has no such field.
LanguageOf(job) ==
    IF "input" \in job.keys /\ "language" \in job.input.keys
    THEN job.input.language
    ELSE "en"

AllowedLanguages == { "en", "ko", "es", "pt", "fr" }

\* The globals as they are now, to compare with last.g.
GlobalsUntouched == Globals = last.g

\* C1: a job whose language is not one of en, ko, es, pt, fr gets an error
\* result that names the rejected value and the allowed set, and neither
\* load_model, nor get_voice_style, nor the engine runs for it, whatever its
\* other fields, the directories and the caches.
C1_InvalidLanguageRejected ==
    (Invoked /\ LanguageOf(last.job) \notin AllowedLanguages) =>
        /\ last.outcome = "returned"
        /\ last.result.kind = "error"
        /\ last.result.error.type = "InvalidLanguage"
        /\ last.result.error.language = LanguageOf(last.job)
        /\ Range(last.result.error.allowed) = AllowedLanguages
        /\ ~last.lm.called /\ ~last.lm.loadCalled
        /\ ~last.gs.called /\ ~last.gs.loadCalled
        /\ ~last.engineInvoked
        /\ GlobalsUntouched

\* "EN" is rejected although the engine is cached, the voice is named and
\* its style file is there.
C1_Witness ==
    /\ Invoked
    /\ LanguageOf(last.job) = "EN"
    /\ last.result.error.type = "InvalidLanguage"
    /\ last.g.tts_model # None
    /\ last.voice = << "M1", ".json" >>
    /\ VoicePath(last.voice) \in last.fs.files

\* C2: every invocation of handler returns a success result or an error
\* result; no exception leaves handler, for any job and any filesystem.
C2_NoExceptionEscapes ==
    Invoked =>
        /\ last.outcome = "returned"
        /\ last.result.kind \in { "success", "error" }

\* The voice identifiers that have a style file: v such that v + ".json" is
\* in the directory.
VoicesWithFiles(files) ==
    { SubSeq(f, 1, Len(f) - 1) : f \in { g \in files : g[Len(g)] = ".json" } }

\* C3: a job with a valid language asking for a voice that is not cached and
\* has no style file gets an UnknownVoice error that lists exactly the voice
\* identifiers that have a style file at the time of the call.
C3_UnknownVoiceListsExactly ==
    ( /\ Invoked
      /\ last.gs.called
      /\ last.fs.dirExists
      /\ last.voice \notin DOMAIN last.g.voice_styles
      /\ last.voice \notin VoicesWithFiles(last.fs.files) ) =>
        /\ last.result.kind = "error"
        /\ last.result.error.type = "UnknownVoice"
        /\ last.result.error.available = VoicesWithFiles(last.fs.files)

\* The required files absent from a directory.
AbsentFiles(onnx) == Range(required_files) \ onnx

\* load_model ran with no engine cached and some required file absent: it
\* failed with the list of exactly the absent files, left tts_model unset and
\* loaded nothing.
MissingArtifactReported ==
    /\ last.lm.checked
    /\ ~last.lm.loadCalled
    /\ last.lm.ret = None
    /\ last.result.kind = "error"
    /\ last.result.error.type = "MissingArtifact"
    /\ Range(last.result.error.missing) = AbsentFiles(last.fs.onnx)
    /\ Len(last.result.error.missing) = Cardinality(AbsentFiles(last.fs.onnx))
    /\ tts_model = None
    /\ engineLoads = last.g.engineLoads

ColdLoadModel == Invoked /\ last.lm.called /\ last.g.tts_model = None

\* C4 as stated: with no engine cached, load_model fails with exactly the
\* absent files when some are absent, and when all six are present it checks
\* them again, performs the load and returns a handle.
C4_AsStated ==
    ColdLoadModel =>
        IF AbsentFiles(last.fs.onnx) # {}
        THEN MissingArtifactReported
        ELSE /\ last.lm.checked
             /\ last.lm.loadCalled
             /\ last.lm.ret # None

\* C4, amended: ... when all six are present it checks them again and calls
\* load_text_to_speech; when that returns, its value is cached and returned;
\* when that raises, tts_model stays unset and the job gets an error result.
C4_MissingArtifact ==
    ColdLoadModel =>
        IF AbsentFiles(last.fs.onnx) # {}
        THEN MissingArtifactReported
        ELSE /\ last.lm.checked
             /\ last.lm.loadCalled
             /\ IF last.lm.raised = ""
                THEN /\ last.lm.ret # None
                     /\ tts_model = last.lm.ret
                     /\ engineLoads = last.g.engineLoads + 1
                ELSE /\ last.lm.ret = None
                     /\ tts_model = None
                     /\ engineLoads = last.g.engineLoads
                     /\ last.result.kind = "error"

\* Two files are absent and both are listed.
C4_Witness ==
    /\ ColdLoadModel
    /\ last.result.error.type = "MissingArtifact"
    /\ last.result.error.missing = << "vocoder.onnx", "tts.json" >>
    /\ tts_model = None

\* The integer nearest to a / b (b > 0, a >= 0), a tie going to the even one.
RoundDiv(a, b) ==
    LET q == a \div b
        r == a % b
    IN  IF 2 * r < b THEN q
        ELSE IF 2 * r > b THEN q + 1
        ELSE IF q % 2 = 0 THEN q ELSE q + 1

SuccessfulSynthesis == Invoked /\ last.result.kind = "success"

\* The first n samples of the engine's waveform.
FirstSamples(n) == [i \in 1..n |-> Waveform(last.wavLen)[i]]

\* C5 as stated: on success the audio holds exactly round(sample_rate *
\* duration) samples, the first ones of the engine's waveform, when that
\* number is at most the waveform's length; the duration is the engine's.
C5_AsStated ==
    ( /\ SuccessfulSynthesis
      /\ RoundDiv(sample_rate * last.durNum, DurDen) <= last.wavLen ) =>
        /\ Len(last.result.audio.frames) = RoundDiv(sample_rate * last.durNum, DurDen)
        /\ last.result.audio.frames =
              FirstSamples(RoundDiv(sample_rate * last.durNum, DurDen))
        /\ last.result.duration = last.durNum

\* C5, amended: on success the audio holds exactly int(sample_rate *
\* duration) samples, the product truncated (durations are not negative),
\* the first ones of the engine's waveform, when that number is at most the
\* waveform's length; the duration is the engine's.
C5_TrimTruncates ==
    ( /\ SuccessfulSynthesis
      /\ (sample_rate * last.durNum) \div DurDen <= last.wavLen ) =>
        /\ Len(last.result.audio.frames) = (sample_rate * last.durNum) \div DurDen
        /\ last.result.audio.frames =
              FirstSamples((sample_rate * last.durNum) \div DurDen)
        /\ last.result.audio.container = "WAV"
        /\ last.result.duration = last.durNum
        /\ last.result.sample_rate = sample_rate

\* 3 samples a second for 2/4 second: 1.5 samples, of which one is kept and
\* one dropped.
C5_Witness ==
    /\ SuccessfulSynthesis
    /\ last.wavLen = 2
    /\ last.durNum = 2
    /\ last.result.audio.frames = << 1 >>

\* C6: once the engine is cached, load_model returns that same handle without
\* checking the files and without loading, also when required files have been
\* removed; so every handle load_model ever returns is the first one loaded.
C6_EngineCachedForGood ==
    /\ (Invoked /\ last.lm.called /\ last.g.tts_model # None) =>
          /\ last.lm.ret = last.g.tts_model
          /\ ~last.lm.checked
          /\ ~last.lm.loadCalled
          /\ tts_model = last.g.tts_model
          /\ engineLoads = last.g.engineLoads
    /\ (Invoked /\ last.lm.ret # None) => last.lm.ret = 1

\* The cached handle is returned while two required files are absent.
C6_Witness ==
    /\ Invoked
    /\ last.lm.called
    /\ last.g.tts_model # None
    /\ last.lm.ret = last.g.tts_model
    /\ Cardinality(AbsentFiles(last.fs.onnx)) = 2

\* C7: a voice in voice_styles stays there with the same style, whatever
\* jobs follow, and get_voice_style returns that style for it without
\* checking the style file and without loading.
C7_StyleCachedForGood ==
    Invoked =>
        /\ \A v \in DOMAIN last.g.voice_styles :
              /\ v \in DOMAIN voice_styles
              /\ voice_styles[v] = last.g.voice_styles[v]
        /\ (last.gs.called /\ last.voice \in DOMAIN last.g.voice_styles) =>
              /\ last.gs.ret = last.g.voice_styles[last.voice]
              /\ ~last.gs.checked
              /\ ~last.gs.loadCalled
              /\ styleLoads = last.g.styleLoads

\* The cached style is returned though its file is gone, with another voice
\* cached beside it.
C7_Witness ==
    /\ Invoked
    /\ last.gs.called
    /\ last.voice \in DOMAIN last.g.voice_styles
    /\ VoicePath(last.voice) \notin last.fs.files
    /\ last.gs.ret = last.g.voice_styles[last.voice]
    /\ Cardinality(DOMAIN voice_styles) = 2

\* C10: every key of voice_styles maps to a style that load_voice_style
\* returned for that voice, from a file that existed; a get_voice_style that
\* fails, the file being absent or the load raising, leaves voice_styles as
\* it was, without the voice.
C10_OnlyLoadedStylesCached ==
    /\ \A v \in DOMAIN voice_styles :
          /\ voice_styles[v].voice = v
          /\ voice_styles[v].n \in 1..styleLoads[v]
    /\ Invoked =>
          /\ \A v \in DOMAIN voice_styles \ DOMAIN last.g.voice_styles :
                /\ v = last.voice
                /\ VoicePath(v) \in last.fs.files
                /\ last.gs.loadCalled
                /\ last.gs.raised = ""
                /\ voice_styles[v] = last.gs.ret
          /\ (last.gs.called /\ last.gs.raised # "") =>
                /\ voice_styles = last.g.voice_styles
                /\ last.voice \notin DOMAIN voice_styles
                /\ last.result.kind = "error"

\* load_voice_style raises for a voice whose file is there, another voice
\* being cached; the failed voice is not in voice_styles.
C10_Witness ==
    /\ Invoked
    /\ last.gs.loadCalled
    /\ last.gs.raised = "Exception"
    /\ VoicePath(last.voice) \in last.fs.files
    /\ DOMAIN voice_styles = { << "M1", ".json" >> }

\* C8: under every interleaving of concurrent invocations load_text_to_speech
\* completes at most once, and load_voice_style at most once per voice.
C8_LoadedAtMostOnce ==
    /\ engineLoads <= 1
    /\ \A v \in VoiceIds : styleLoads[v] <= 1

\* C9: under every interleaving, once tts_model is not None it is never
\* assigned again: it keeps its value.
C9_HandleNeverReplaced ==
    [][tts_model # None => tts_model' = tts_model]_vars

====
